---- MODULE Spec2Model ----
(***************************************************************************)
(* The clip upload-and-publish backend: token issuance and verification,   *)
(* the upload workflow, the SQLite metadata store, the object store, and   *)
(* the watch page / metadata endpoints.                                    *)
(*                                                                         *)
(* Python values are represented as follows.  An optional value is a       *)
(* sequence: None is << >> and a present value x is <<x>>.  A str whose    *)
(* characters matter (the uploaded file name) is a sequence of one-char    *)
(* strings.  The TEXT of the settings column is a sequence of JSON lexical *)
(* tokens.  An Authorization header is a sequence of words, the word       *)
(* "Bearer " or a token string.                                            *)
(***************************************************************************)
EXTENDS Integers, Sequences, FiniteSets, TLC

VARIABLES
    clips,        \* the rows of table clips in clips.db (a set of records)
    blobs,        \* the object keys present in the R2 bucket
    clock,        \* wall-clock time, in whole minutes
    resp,         \* the response of the last request handled
    conn,         \* per concurrent caller: the state of its sqlite connection
    dbLock,       \* the caller holding SQLite's write lock on clips.db, or 0
    viewsBefore,  \* the views of the watched clip before the concurrent calls
    wallet        \* the token string a client holds, if any

vars == <<clips, blobs, clock, resp, conn, dbLock, viewsBefore, wallet>>

-----------------------------------------------------------------------------
(* Bounds of the model *)

MaxClock == 1
MaxViews == 2
MaxTokenClock == 17
MaxProcs == 3
MaxSettingsLen == 2

(* Settings (config.py) *)

upload_token_expire_minutes == 15

allowed_video_extensions ==
    { <<".", "m", "p", "4">>, <<".", "m", "k", "v">>, <<".", "w", "e", "b", "m">> }

-----------------------------------------------------------------------------
(* Python's None and optional values *)

None == << >>
Some(x) == <<x>>

(* The inputs requests are drawn from *)

Users == {"alice", "bob"}
ClipIds == {"id1", "id2"}

Filenames ==
    { <<"a", ".", "m", "p", "4">>,          \* a.mp4
      <<"a", ".", "M", "K", "V">>,          \* a.MKV
      <<"a", ".", "e", "x", "e">>,          \* a.exe
      <<".", "m", "p", "4">>,               \* .mp4 (a dot-file: no extension)
      <<"a", ".", "m", "p", "4", "/", "b">> \* a.mp4/b (the dot is in a directory)
    }

(* The optional form fields duration, resolution, fps, bitrate: none sent, *)
(* or only the duration sent.                                              *)
HintSets ==
    { [duration |-> None, resolution |-> None, fps |-> None, bitrate |-> None],
      [duration |-> Some(1), resolution |-> None, fps |-> None, bitrate |-> None] }

-----------------------------------------------------------------------------
(* os.path.splitext(...)[1].lower() *)

rfind(p, c) ==
    IF \E i \in 1..Len(p) : p[i] = c
    THEN CHOOSE i \in 1..Len(p) : p[i] = c /\ \A j \in (i+1)..Len(p) : p[j] # c
    ELSE 0

splitext_ext(p) ==
    LET sepIndex == rfind(p, "/")
        dotIndex == rfind(p, ".")
    IN  IF dotIndex > sepIndex /\ \E i \in (sepIndex+1)..(dotIndex-1) : p[i] # "."
        THEN SubSeq(p, dotIndex, Len(p))
        ELSE << >>

lower_char(c) ==
    CASE c = "M" -> "m" [] c = "K" -> "k" [] c = "V" -> "v" [] c = "P" -> "p"
      [] c = "W" -> "w" [] c = "E" -> "e" [] c = "B" -> "b" [] c = "X" -> "x"
      [] c = "A" -> "a" [] OTHER -> c

lower(s) == [i \in 1..Len(s) |-> lower_char(s[i])]

(* a bug: the extension is compared as it was typed *)
file_ext_not_lowered(filename) == splitext_ext(filename)

file_ext_of(filename) == lower(splitext_ext(filename))

-----------------------------------------------------------------------------
(* Tokens.  A token string is either a well-formed JWT, signed with the    *)
(* server's jwt_secret_key or with some other key and carrying the claims  *)
(* sub, exp and type, or garbage.                                          *)

GarbageToken ==
    [fmt |-> "garbage", key |-> "other", sub |-> None, exp |-> 0, type |-> ""]

create_upload_token(username, now) ==
    [fmt |-> "jwt", key |-> "server", sub |-> Some(username),
     exp |-> now + upload_token_expire_minutes, type |-> "upload"]

(* a bug: the expiry is not verified *)
jwt_decode_never_expires(token, now) ==
    /\ token.fmt = "jwt"
    /\ token.key = "server"

(* jwt.decode: JWTError on a malformed token, a bad signature, or an exp   *)
(* that lies in the past                                                   *)
jwt_decode_ok(token, now) ==
    /\ token.fmt = "jwt"
    /\ token.key = "server"
    /\ ~(token.exp < now)

(* verify_upload_token: the username returned (status 200), or the        *)
(* HTTPException 401 raised with its detail                                *)
verify_upload_token(token, now) ==
    IF ~jwt_decode_ok(token, now)
    THEN [status |-> 401, user |-> "", detail |-> "Invalid or expired token"]
    ELSE IF token.sub = None \/ token.type # "upload"
         THEN [status |-> 401, user |-> "", detail |-> "Invalid token"]
         ELSE [status |-> 200, user |-> token.sub[1], detail |-> ""]

-----------------------------------------------------------------------------
(* JSON.  A JSON value is a record [t, s, n, o]: a string (s), an integer  *)
(* (n), a boolean (n = 1 or 0), null, or an object (o, the sequence of its *)
(* <<key, value>> members in insertion order, the keys distinct).          *)

JStr(x)  == [t |-> "str",  s |-> x,  n |-> 0, o |-> << >>]
JInt(x)  == [t |-> "int",  s |-> "", n |-> x, o |-> << >>]
JBool(b) == [t |-> "bool", s |-> "", n |-> IF b THEN 1 ELSE 0, o |-> << >>]
JNull    == [t |-> "null", s |-> "", n |-> 0, o |-> << >>]
JObj(d)  == [t |-> "obj",  s |-> "", n |-> 0, o |-> d]

(* The lexical tokens of a JSON text *)
Tok(kind, str, num) == [k |-> kind, s |-> str, n |-> num]
LBrace == Tok("{", "", 0)
RBrace == Tok("}", "", 0)
Colon  == Tok(":", "", 0)
Comma  == Tok(",", "", 0)

RECURSIVE dumps_value(_), dumps_members(_)

dumps_value(v) ==
    CASE v.t = "str"  -> << Tok("string", v.s, 0) >>
      [] v.t = "int"  -> << Tok("number", "", v.n) >>
      [] v.t = "bool" -> << Tok(IF v.n = 1 THEN "true" ELSE "false", "", 0) >>
      [] v.t = "null" -> << Tok("null", "", 0) >>
      [] v.t = "obj"  -> <<LBrace>> \o dumps_members(v.o) \o <<RBrace>>

dumps_members(d) ==
    IF d = << >> THEN << >>
    ELSE << Tok("string", d[1][1], 0), Colon >> \o dumps_value(d[1][2])
         \o (IF Len(d) > 1 THEN <<Comma>> \o dumps_members(Tail(d)) ELSE << >>)

json_dumps(v) == dumps_value(v)

ParseFail == [ok |-> FALSE, v |-> JNull, rest |-> << >>]

RECURSIVE parse_value(_), parse_members(_)

parse_value(ts) ==
    IF ts = << >> THEN ParseFail
    ELSE CASE ts[1].k = "string" -> [ok |-> TRUE, v |-> JStr(ts[1].s), rest |-> Tail(ts)]
           [] ts[1].k = "number" -> [ok |-> TRUE, v |-> JInt(ts[1].n), rest |-> Tail(ts)]
           [] ts[1].k = "true"   -> [ok |-> TRUE, v |-> JBool(TRUE), rest |-> Tail(ts)]
           [] ts[1].k = "false"  -> [ok |-> TRUE, v |-> JBool(FALSE), rest |-> Tail(ts)]
           [] ts[1].k = "null"   -> [ok |-> TRUE, v |-> JNull, rest |-> Tail(ts)]
           [] ts[1].k = "{" ->
                IF Len(ts) >= 2 /\ ts[2].k = "}"
                THEN [ok |-> TRUE, v |-> JObj(<< >>), rest |-> SubSeq(ts, 3, Len(ts))]
                ELSE parse_members(Tail(ts))
           [] OTHER -> ParseFail

(* the members of an object after its opening brace, up to its closing one *)
parse_members(ts) ==
    IF Len(ts) < 3 \/ ts[1].k # "string" \/ ts[2].k # ":" THEN ParseFail
    ELSE LET pv == parse_value(SubSeq(ts, 3, Len(ts)))
         IN  IF ~pv.ok \/ pv.rest = << >> THEN ParseFail
             ELSE IF pv.rest[1].k = "}"
                  THEN [ok |-> TRUE, v |-> JObj(<< <<ts[1].s, pv.v>> >>),
                        rest |-> Tail(pv.rest)]
                  ELSE IF pv.rest[1].k = ","
                       THEN LET more == parse_members(Tail(pv.rest))
                            IN  IF ~more.ok THEN ParseFail
                                ELSE [ok |-> TRUE,
                                      v |-> JObj(<< <<ts[1].s, pv.v>> >> \o more.v.o),
                                      rest |-> more.rest]
                       ELSE ParseFail

(* json.loads: the value, or a JSONDecodeError *)
json_loads(ts) ==
    LET p == parse_value(ts)
    IN  IF p.ok /\ p.rest = << >> THEN p ELSE ParseFail

-----------------------------------------------------------------------------
(* The metadata store (database.py) *)

(* a bug: the text of the column is returned as it is stored *)
get_clip_settings_unparsed(column) ==
    IF column = None THEN [kind |-> "none", v |-> JNull, text |-> << >>]
    ELSE [kind |-> "text", v |-> JNull, text |-> column[1]]

(* a bug: the id column is not declared PRIMARY KEY *)
primary_key_missing(table, id) == TRUE

(* SCHEMA_SQL: id is the PRIMARY KEY of table clips *)
primary_key_free(table, id) == \A r \in table : r.id # id

(* the row INSERT INTO clips builds: thumbnail_path is not given (NULL),    *)
(* created_at DEFAULT CURRENT_TIMESTAMP, views DEFAULT 0                   *)
clip_row(clip_data, now) ==
    [id               |-> clip_data.id,
     owner            |-> clip_data.owner,
     filename         |-> clip_data.filename,
     storage_path     |-> clip_data.storage_path,
     duration_seconds |-> clip_data.duration,
     file_size_bytes  |-> clip_data.file_size,
     resolution       |-> clip_data.resolution,
     fps              |-> clip_data.fps,
     bitrate_kbps     |-> clip_data.bitrate,
     thumbnail_path   |-> None,
     created_at       |-> now,
     views            |-> 0,
     settings         |-> Some(json_dumps(clip_data.settings))]

(* insert_clip: the table after the commit, or the exception (an           *)
(* IntegrityError on a taken id, an OperationalError when the database     *)
(* fails) after which get_db rolls back                                    *)
insert_clip(table, clip_data, now, db_ok) ==
    IF db_ok /\ primary_key_free(table, clip_data.id)
    THEN [ok |-> TRUE,  table |-> table \cup {clip_row(clip_data, now)}]
    ELSE [ok |-> FALSE, table |-> table]

(* the settings of the dict get_clip returns: the parsed JSON when the     *)
(* column's text is truthy, else the column as it is                       *)
NoSettings == [kind |-> "none", v |-> JNull, text |-> << >>]

settings_truthy(column) == column # None /\ Len(column[1]) > 0

get_clip_settings(column) ==
    IF settings_truthy(column)
    THEN [kind |-> "json", v |-> json_loads(column[1]).v, text |-> << >>]
    ELSE IF column = None THEN NoSettings
         ELSE [kind |-> "text", v |-> JNull, text |-> column[1]]

(* get_clip: None when no row has the id, else dict(row) with its settings *)
get_clip(table, clip_id) ==
    IF \E r \in table : r.id = clip_id
    THEN LET row == CHOOSE r \in table : r.id = clip_id
         IN  Some([row EXCEPT !.settings = get_clip_settings(row.settings)])
    ELSE None

(* json.loads raises on a text that is no JSON document *)
get_clip_raises(table, clip_id) ==
    \E r \in table : /\ r.id = clip_id
                     /\ settings_truthy(r.settings)
                     /\ ~json_loads(r.settings[1]).ok

(* a bug: the UPDATE has no WHERE clause *)
update_views_everywhere(table, clip_id) ==
    { [r EXCEPT !.views = r.views + 1] : r \in table }

(* UPDATE clips SET views = views + 1 WHERE id = ? *)
update_views(table, clip_id) ==
    { IF r.id = clip_id THEN [r EXCEPT !.views = r.views + 1] ELSE r : r \in table }

(* increment_views with nothing else running: the table after its commit   *)
increment_views(table, clip_id) == update_views(table, clip_id)

-----------------------------------------------------------------------------
(* The object store (storage.py) *)

(* a bug: the object is not stored under object_key *)
upload_fileobj_lost(bucket, object_key) == bucket

(* upload_fileobj: the bucket after s3_client.upload_fileobj returned; an  *)
(* object under the same key is overwritten                                *)
upload_fileobj(bucket, object_key) == bucket \cup {object_key}

-----------------------------------------------------------------------------
(* The Authorization header of an upload *)

BearerWord == [w |-> "Bearer ", tok |-> GarbageToken]
TokenWord(t) == [w |-> "token", tok |-> t]

(* `authorization and authorization.startswith("Bearer ")` *)
has_bearer(authorization) ==
    /\ authorization # None
    /\ Len(authorization[1]) > 0
    /\ authorization[1][1] = BearerWord

(* authorization.replace("Bearer ", ""): every "Bearer " is removed; what  *)
(* is left is one token string, or a text that is no JWT                   *)
bearer_token(authorization) ==
    LET rest == SelectSeq(authorization[1], LAMBDA x : x # BearerWord)
    IN  IF Len(rest) = 1 THEN rest[1].tok ELSE GarbageToken

-----------------------------------------------------------------------------
(* The responses: the status code, the detail of an error, the clip id of  *)
(* the request or of the link returned, the view count a returned clip or  *)
(* page shows, the token POST /auth/token returns; and, of a call of a     *)
(* function of the backend, the username verify_upload_token returns and   *)
(* the settings of the dict get_clip returns.                              *)

Response(op, status, detail, clip_id, views, token) ==
    [op |-> op, status |-> status, detail |-> detail, clip_id |-> clip_id,
     views |-> views, token |-> token, user |-> None, settings |-> NoSettings]

NoResponse == Response("none", 0, "", "", None, None)

-----------------------------------------------------------------------------
(* POST /auth/token *)

get_upload_token(username) ==
    /\ resp' = Response("token", 200, "", "", None,
                        Some(create_upload_token(username, clock)))
    /\ UNCHANGED <<clips, blobs, clock, conn, dbLock, viewsBefore>>

(* POST /upload.  req is the multipart form and the header; clip_id is the *)
(* id generate(size=12) returns; s3_ok and db_ok tell whether the object   *)
(* store and the database work during this request.                        *)

object_key_of(req, clip_id) ==
    <<"clips", req.username, clip_id, file_ext_of(req.file.filename)>>

clip_data_of(req, clip_id) ==
    [id           |-> clip_id,
     owner        |-> req.username,
     filename     |-> req.file.filename,
     storage_path |-> object_key_of(req, clip_id),
     duration     |-> req.hints.duration,
     file_size    |-> req.file.size,
     resolution   |-> req.hints.resolution,
     fps          |-> req.hints.fps,
     bitrate      |-> req.hints.bitrate,
     settings     |-> JObj(<< >>)]

(* a bug: the token's username is not compared with the form's *)
token_check_any_user(req, now) ==
    IF ~has_bearer(req.authorization) THEN 200
    ELSE IF verify_upload_token(bearer_token(req.authorization), now).status # 200
         THEN 401 ELSE 200

(* the status of the token check: 200 when there is no bearer token or it  *)
(* verifies for the declared username                                      *)
token_check(req, now) ==
    IF ~has_bearer(req.authorization) THEN 200
    ELSE LET v == verify_upload_token(bearer_token(req.authorization), now)
         IN  IF v.status # 200 THEN 401
             ELSE IF v.user # req.username THEN 403
             ELSE 200

extension_allowed(filename) == file_ext_of(filename) \in allowed_video_extensions

upload_clip(req, clip_id, s3_ok, db_ok) ==
    LET auth == token_check(req, clock)
        ins  == insert_clip(clips, clip_data_of(req, clip_id), clock, db_ok)
    IN  /\ UNCHANGED <<clock, conn, dbLock, viewsBefore, wallet>>
        /\ IF auth # 200
           THEN /\ resp' = Response("upload", auth,
                                    IF auth = 401
                                    THEN verify_upload_token(
                                             bearer_token(req.authorization), clock).detail
                                    ELSE "Token username mismatch", "", None, None)
                /\ UNCHANGED <<clips, blobs>>
           ELSE IF ~extension_allowed(req.file.filename)
           THEN /\ resp' = Response("upload", 400, "Invalid file type", "", None, None)
                /\ UNCHANGED <<clips, blobs>>
           ELSE IF ~s3_ok
           THEN /\ resp' = Response("upload", 500, "Upload failed", "", None, None)
                /\ UNCHANGED <<clips, blobs>>
           ELSE /\ blobs' = upload_fileobj(blobs, object_key_of(req, clip_id))
                /\ clips' = ins.table
                /\ resp' = IF ins.ok
                           THEN Response("upload", 200, "", clip_id, None, None)
                           ELSE Response("upload", 500, "Internal Server Error", "",
                                         None, None)

(* GET /watch/{clip_id}.  db_fault names the database call that fails      *)
(* during this request, if one does.                                       *)

(* the f-string: {clip.get('duration_seconds', 0):.1f} raises a TypeError  *)
(* when the column is NULL; the other fields format whatever they hold     *)
render_ok(clip) == clip.duration_seconds # None

watch_clip(clip_id, db_fault) ==
    LET clip == get_clip(clips, clip_id)
    IN  /\ UNCHANGED <<blobs, clock, conn, dbLock, viewsBefore, wallet>>
        /\ IF db_fault = "get_clip" \/ get_clip_raises(clips, clip_id)
           THEN /\ resp' = Response("watch", 500, "Internal Server Error", clip_id, None, None)
                /\ UNCHANGED clips
           ELSE IF clip = None
           THEN /\ resp' = Response("watch", 404, "Clip not found", clip_id, None, None)
                /\ UNCHANGED clips
           ELSE IF db_fault = "increment_views"
           THEN /\ resp' = Response("watch", 500, "Internal Server Error", clip_id, None, None)
                /\ UNCHANGED clips
           ELSE /\ clip[1].views < MaxViews
                /\ clips' = increment_views(clips, clip_id)
                /\ resp' = IF render_ok(clip[1])
                           THEN Response("watch", 200, "", clip_id, Some(clip[1].views),
                                         None)
                           ELSE Response("watch", 500, "Internal Server Error", clip_id, None, None)

(* GET /api/clip/{clip_id} *)
get_clip_metadata(clip_id, db_fault) ==
    LET clip == get_clip(clips, clip_id)
    IN  /\ UNCHANGED <<clips, blobs, clock, conn, dbLock, viewsBefore, wallet>>
        /\ resp' = IF db_fault = "get_clip" \/ get_clip_raises(clips, clip_id)
                   THEN Response("metadata", 500, "Internal Server Error", clip_id, None, None)
                   ELSE IF clip = None
                   THEN Response("metadata", 404, "Clip not found", clip_id, None, None)
                   ELSE Response("metadata", 200, "", clip_id, Some(clip[1].views),
                                 None)

-----------------------------------------------------------------------------
(* The service, one request at a time: uploads without a token, watch      *)
(* pages and metadata, with the object store and the database failing at   *)
(* will.                                                                   *)

File(filename) == [filename |-> filename, size |-> Some(1)]

StoreRequests ==
    [file : {File(<<"a", ".", "m", "p", "4">>), File(<<"a", ".", "e", "x", "e">>)},
     username : Users, hints : HintSets, authorization : {None}]

DbFaults == {"none", "get_clip", "increment_views"}

Init ==
    /\ clips = {}
    /\ blobs = {}
    /\ clock = 0
    /\ resp = NoResponse
    /\ conn = << >>
    /\ dbLock = 0
    /\ viewsBefore = 0
    /\ wallet = None

TokenRequest ==
    /\ \E u \in Users : get_upload_token(u)
    /\ UNCHANGED wallet

UploadRequest ==
    \E req \in StoreRequests, clip_id \in ClipIds, s3_ok \in BOOLEAN, db_ok \in BOOLEAN :
        upload_clip(req, clip_id, s3_ok, db_ok)

WatchRequest == \E clip_id \in ClipIds, f \in DbFaults : watch_clip(clip_id, f)

MetadataRequest ==
    \E clip_id \in ClipIds, f \in DbFaults \ {"increment_views"} : get_clip_metadata(clip_id, f)

Next == TokenRequest \/ UploadRequest \/ WatchRequest \/ MetadataRequest

Spec == Init /\ [][Next]_vars

-----------------------------------------------------------------------------
(* Admission of uploads: every kind of Authorization header and of file    *)
(* name, while time passes and the object store and the database work.     *)

(* time passes *)
Tick ==
    /\ clock < MaxClock
    /\ clock' = clock + 1
    /\ UNCHANGED <<clips, blobs, resp, conn, dbLock, viewsBefore, wallet>>

(* tokens a client may hold at time now: issued by POST /auth/token now,   *)
(* or earlier so that it expires now or has expired; and token strings the *)
(* server never issued                                                     *)
IssuedTokens(now) ==
    { create_upload_token(u, now) : u \in Users }
    \cup { create_upload_token("alice", now - upload_token_expire_minutes),
           create_upload_token("alice", now - upload_token_expire_minutes - 1) }

ForeignTokens(now) ==
    { [create_upload_token("alice", now) EXCEPT !.key = "other"],
      [create_upload_token("alice", now) EXCEPT !.type = "download"],
      [create_upload_token("alice", now) EXCEPT !.sub = None],
      GarbageToken }

FreshHeader(now) == Some(<<BearerWord, TokenWord(create_upload_token("alice", now))>>)

Headers(now) ==
    { None, Some(<< >>) }
    \cup { Some(<<BearerWord, TokenWord(t)>>) : t \in IssuedTokens(now) \cup ForeignTokens(now) }
    \cup { Some(<<TokenWord(create_upload_token("alice", now))>>),
           Some(<<BearerWord, BearerWord, TokenWord(create_upload_token("bob", now))>>),
           Some(<<BearerWord, TokenWord(create_upload_token("alice", now)),
                  TokenWord(create_upload_token("alice", now))>>) }

WithDuration == [duration |-> Some(1), resolution |-> None, fps |-> None, bitrate |-> None]

(* every header with the file a.mp4, and every file name with no header or *)
(* with alice's fresh token                                                *)
AdmissionRequests(now) ==
    { r \in [file : {File(f) : f \in Filenames}, username : Users,
             hints : {WithDuration}, authorization : Headers(now)] :
        \/ r.file = File(<<"a", ".", "m", "p", "4">>)
        \/ r.authorization \in {None, FreshHeader(now)} }

AdmissionIds == {"id1"}

(* the object store and the database work *)
AdmissionRequest ==
    \E req \in AdmissionRequests(clock), clip_id \in AdmissionIds :
        upload_clip(req, clip_id, TRUE, TRUE)

NextAuth == TokenRequest \/ AdmissionRequest \/ Tick

SpecAuth == Init /\ [][NextAuth]_vars

-----------------------------------------------------------------------------
(* Properties of the service (Spec) *)

HasClip(table, clip_id) == \E r \in table : r.id = clip_id
RowOf(table, clip_id) == CHOOSE r \in table : r.id = clip_id

(* Every step of Spec handles one request, and resp' is its response.      *)

C5_EveryRecordHasItsBlob == \A r \in clips : r.storage_path \in blobs

C5_FailedUploadCreatesNothing ==
    /\ (resp'.op = "upload" /\ resp'.detail = "Upload failed")
          => (resp'.status = 500 /\ clips' = clips /\ blobs' = blobs)
    /\ \A r \in clips' \ clips : r.storage_path \in blobs'

(* C5: in every reachable state every clip record has its blob in the      *)
(* object store under its storage_path; an upload that answers with the    *)
(* upload error has created no record and stored no blob; a record is      *)
(* created only together with its blob.                                    *)
C5_BlobBeforeRecord ==
    /\ []C5_EveryRecordHasItsBlob
    /\ [][C5_FailedUploadCreatesNothing]_vars

C5_Witness ==
    /\ resp.op = "upload" /\ resp.detail = "Upload failed"
    /\ clips # {}
    /\ \A r \in clips : r.storage_path \in blobs

C10_IdsUnique == \A r1 \in clips, r2 \in clips : r1.id = r2.id => r1 = r2

C10_RecordsKept ==
    \A r \in clips : \E r2 \in clips' : r2 = [r EXCEPT !.views = r2.views]

C10_CollisionFails ==
    /\ (resp'.op = "upload" /\ resp'.status = 200)
          => /\ ~HasClip(clips, resp'.clip_id)
             /\ \E r \in clips' : r.id = resp'.clip_id /\ clips' = clips \cup {r}
    /\ (resp'.op = "upload" /\ resp'.status # 200) => clips' = clips

(* C10: no two records share an id; a record, once there, is never deleted *)
(* and only its views change; an upload succeeds only with an id no record *)
(* has, and one that fails at the insert leaves every record as it was.    *)
C10_IdUniqueRecordImmutable ==
    /\ []C10_IdsUnique
    /\ [][C10_RecordsKept /\ C10_CollisionFails]_vars

C10_Witness ==
    /\ resp.op = "upload" /\ resp.detail = "Internal Server Error"
    /\ Cardinality(clips) = 2
    /\ \E r \in clips : r.views > 0

C6_WatchStep ==
    resp'.op = "watch" =>
        \A clip_id \in ClipIds :
            watch_clip(clip_id, "none") =>
                /\ HasClip(clips, clip_id) => resp'.status = 200
                /\ ~HasClip(clips, clip_id) => resp'.status = 404

(* C6: the watch page of an id is an HTML document (200) whenever a record  *)
(* with that id exists, whatever hints it was submitted with, and is       *)
(* not-found (404) exactly when no record has the id (the database         *)
(* working).                                                               *)
C6_WatchPageForEveryRecord == [][C6_WatchStep]_vars

C7_WatchStep ==
    resp'.op = "watch" =>
        \A clip_id \in ClipIds :
            ( /\ watch_clip(clip_id, "increment_views")
              /\ HasClip(clips, clip_id)
              /\ render_ok(RowOf(clips, clip_id)) )
            => resp'.status = 200

(* C7: when increment_views fails during the watch page of an existing     *)
(* clip (one whose page renders), the page is returned all the same.       *)
C7_IncrementIsBestEffort == [][C7_WatchStep]_vars

C8_ViewsStep ==
    /\ \A r \in clips' : ~HasClip(clips, r.id) => r.views = 0
    /\ \A r \in clips : /\ HasClip(clips', r.id)
                        /\ RowOf(clips', r.id).views >= r.views
                        /\ RowOf(clips', r.id).views <= r.views + 1
    /\ (resp'.op = "watch" /\ resp'.status = 200)
          => /\ HasClip(clips, resp'.clip_id)
             /\ RowOf(clips', resp'.clip_id).views = RowOf(clips, resp'.clip_id).views + 1
    /\ resp'.op = "watch"
          => \A r \in clips : r.id # resp'.clip_id => r \in clips'
    /\ resp'.op \in {"token", "upload", "metadata"}
          => \A r \in clips : r \in clips'
    /\ (resp'.op = "metadata" /\ resp'.status = 200)
          => /\ HasClip(clips, resp'.clip_id)
             /\ resp'.views = Some(RowOf(clips, resp'.clip_id).views)

(* C8: a record is created with views 0; views never decrease; a watch     *)
(* page returned for a clip raises its views by exactly 1 and no request   *)
(* raises them by more; a metadata fetch reports the stored views; token   *)
(* issuance, uploads, metadata fetches and watch requests for other ids    *)
(* leave a clip's views as they are.                                       *)
C8_ViewsCountRenders == [][C8_ViewsStep]_vars

(* a first render took the clip from 0 to 1 and the metadata reports 1,    *)
(* beside another clip never watched                                       *)
C8_Witness ==
    /\ resp.op = "metadata" /\ resp.status = 200 /\ resp.views = Some(1)
    /\ \E r \in clips : r.id # resp.clip_id /\ r.views = 0

-----------------------------------------------------------------------------
(* Properties of the admission of uploads (SpecAuth) *)

(* the step handles the upload req, the generated id being clip_id *)
Uploads(req, clip_id) == upload_clip(req, clip_id, TRUE, TRUE)

(* the request carries a bearer token, and it verifies for the declared    *)
(* identity                                                                *)
TokenMatches(req, now) ==
    LET v == verify_upload_token(bearer_token(req.authorization), now)
    IN  v.status = 200 /\ v.user = req.username

AuthorizationPasses(req, now) ==
    has_bearer(req.authorization) => TokenMatches(req, now)

LoweredExtensionAllowed(req) ==
    lower(splitext_ext(req.file.filename)) \in allowed_video_extensions

StoresUnchanged == clips' = clips /\ blobs' = blobs

C2_StatedStep ==
    resp'.op = "upload" =>
        \A req \in AdmissionRequests(clock), clip_id \in AdmissionIds :
            Uploads(req, clip_id) =>
                /\ ~LoweredExtensionAllowed(req)
                      => (resp'.status = 400 /\ StoresUnchanged)
                /\ ( /\ LoweredExtensionAllowed(req)
                     /\ AuthorizationPasses(req, clock)
                     /\ ~HasClip(clips, clip_id) )
                      => /\ resp'.status = 200
                         /\ \E r \in clips' : r \notin clips /\ clips' = clips \cup {r}

(* C2 as stated: an extension that, lower-cased, is outside the allowed set *)
(* always gives the validation error (400) and changes no store; an        *)
(* allowed one, authorization passing and both the blob upload and the     *)
(* insert succeeding, gives success and exactly one new record.            *)
C2_AsStated == [][C2_StatedStep]_vars

C2_AmendedStep ==
    resp'.op = "upload" =>
        \A req \in AdmissionRequests(clock), clip_id \in AdmissionIds :
            Uploads(req, clip_id) =>
                /\ ~LoweredExtensionAllowed(req)
                      => /\ StoresUnchanged
                         /\ AuthorizationPasses(req, clock) => resp'.status = 400
                         /\ ~AuthorizationPasses(req, clock) => resp'.status \in {401, 403}
                /\ ( /\ LoweredExtensionAllowed(req)
                     /\ AuthorizationPasses(req, clock)
                     /\ ~HasClip(clips, clip_id) )
                      => /\ resp'.status = 200
                         /\ \E r \in clips' : r \notin clips /\ clips' = clips \cup {r}

(* C2 amended: an extension outside the allowed set makes the request      *)
(* fail and changes no store, with the validation error (400) when the     *)
(* token check passes and the authorization error (401, 403) when it does  *)
(* not; the rest as stated.                                                *)
C2_ExtensionValidation == [][C2_AmendedStep]_vars

(* an upper-case extension was accepted, then another file was rejected *)
C2_Witness ==
    /\ resp.op = "upload" /\ resp.status = 400
    /\ \E r \in clips : r.filename = <<"a", ".", "M", "K", "V">>

C3_TokenStep ==
    resp'.op = "upload" =>
        \A req \in AdmissionRequests(clock), clip_id \in AdmissionIds :
            Uploads(req, clip_id) =>
                /\ (has_bearer(req.authorization) /\ resp'.status = 200)
                      => TokenMatches(req, clock)
                /\ (has_bearer(req.authorization) /\ ~TokenMatches(req, clock))
                      => /\ resp'.status \in {401, 403}
                         /\ resp'.status = 403 <=>
                              verify_upload_token(bearer_token(req.authorization),
                                                  clock).status = 200
                         /\ StoresUnchanged
                /\ ~has_bearer(req.authorization)
                      => /\ resp'.status \notin {401, 403}
                         /\ \A r \in clips' \ clips : r.owner = req.username

(* C3: with a bearer token, the upload is accepted only if the token       *)
(* verifies and its identity equals the declared one; otherwise it is      *)
(* rejected with 401 (invalid token) or 403 (another identity) and no      *)
(* store changes.  Without one it is not rejected for authorization, and a *)
(* record it creates is owned by the declared identity.                    *)
C3_TokenIdentityBinding == [][C3_TokenStep]_vars

(* a mismatching token was refused after an upload was accepted *)
C3_Witness ==
    /\ resp.op = "upload" /\ resp.status = 403
    /\ clips # {}

-----------------------------------------------------------------------------
(* Tokens over time (SpecToken): a client obtains a token from             *)
(* POST /auth/token or makes one up, time passes, and the token it holds   *)
(* is verified.                                                            *)

ObtainToken ==
    \E u \in Users :
        /\ get_upload_token(u)
        /\ wallet' = Some(create_upload_token(u, clock))

ForgeToken ==
    /\ wallet' \in { Some(t) : t \in ForeignTokens(clock) }
    /\ UNCHANGED <<clips, blobs, clock, resp, conn, dbLock, viewsBefore>>

VerifyToken ==
    /\ wallet # None
    /\ LET v == verify_upload_token(wallet[1], clock)
       IN  resp' = [Response("verify", v.status, v.detail, "", None, wallet)
                    EXCEPT !.user = IF v.status = 200 THEN Some(v.user) ELSE None]
    /\ UNCHANGED <<clips, blobs, clock, conn, dbLock, viewsBefore, wallet>>

TokenTick ==
    /\ clock < MaxTokenClock
    /\ clock' = clock + 1
    /\ UNCHANGED <<clips, blobs, resp, conn, dbLock, viewsBefore, wallet>>

NextToken == ObtainToken \/ ForgeToken \/ VerifyToken \/ TokenTick

SpecToken == Init /\ [][NextToken]_vars

(* the token string was issued by POST /auth/token for user u at time t *)
IssuedAt(token, u, t) == token = create_upload_token(u, t)

(* the step verifies the token held *)
VerifiesNow == resp'.op = "verify" /\ clock' = clock /\ wallet' = wallet /\ wallet # None

C4_VerifyStep ==
    VerifiesNow =>
        /\ \A u \in Users, t \in 0..clock :
              IssuedAt(wallet[1], u, t) =>
                  /\ clock < t + upload_token_expire_minutes
                        => (resp'.status = 200 /\ resp'.user = Some(u))
                  /\ clock > t + upload_token_expire_minutes
                        => (resp'.status = 401 /\ resp'.user = None)
        /\ ( \/ wallet[1].fmt # "jwt"
             \/ wallet[1].key # "server"
             \/ wallet[1].type # "upload" ) => resp'.status = 401
        /\ resp'.status \in {200, 401}
        /\ resp'.status = 200 => resp'.user = wallet[1].sub

(* C4: a token issued for X verifies as X at any time before its expiry    *)
(* (issue time + upload_token_expire_minutes) and fails at any time after  *)
(* it; a token of another key, a malformed one and one whose type is not   *)
(* "upload" fail at every time; the outcome is that of the token held and  *)
(* the time alone.                                                         *)
C4_TokenLifetime == [][C4_VerifyStep]_vars

(* an issued token was refused after its expiry *)
C4_Witness ==
    /\ resp.op = "verify" /\ resp.status = 401
    /\ wallet # None
    /\ \E u \in Users, t \in 0..clock :
          IssuedAt(wallet[1], u, t) /\ clock > t + upload_token_expire_minutes

-----------------------------------------------------------------------------
(* Concurrent increment_views (SpecConc).  Each caller runs                *)
(*     with get_db() as conn: conn.cursor().execute("UPDATE ...")          *)
(* on a connection of its own: sqlite3.connect; the UPDATE, which opens a  *)
(* transaction, takes the write lock of clips.db and changes the           *)
(* connection's copy of the table; conn.commit(), which installs the copy  *)
(* and releases the lock; or, on an exception, conn.rollback().            *)

Procs == 1..MaxProcs

IdleConn == [pc |-> "idle", clip_id |-> "", pending |-> {}]

(* the clips watched: one carrying views already, one fresh *)
WatchedClip(clip_id, views) ==
    [clip_row([id |-> clip_id, owner |-> "alice",
               filename |-> <<"a", ".", "m", "p", "4">>,
               storage_path |-> <<"clips", "alice", clip_id, <<".", "m", "p", "4">>>>,
               duration |-> Some(1), file_size |-> Some(1), resolution |-> None,
               fps |-> None, bitrate |-> None, settings |-> JObj(<< >>)], 0)
     EXCEPT !.views = views]

InitConc ==
    /\ \E v \in 0..MaxViews :
          /\ clips = {WatchedClip("id1", v), WatchedClip("id2", 0)}
          /\ viewsBefore = [id \in ClipIds |-> IF id = "id1" THEN v ELSE 0]
    /\ blobs = { r.storage_path : r \in {WatchedClip("id1", 0), WatchedClip("id2", 0)} }
    /\ clock = 0
    /\ resp = NoResponse
    /\ conn = [p \in Procs |-> IdleConn]
    /\ dbLock = 0
    /\ wallet = None

(* a bug: the connections do not exclude each other's write transactions *)
write_lock_ignored(lock) == TRUE

(* SQLite grants the write lock of the database file to one connection *)
write_lock_free(lock) == lock = 0

(* increment_views(clip_id) is called: get_db connects *)
Connect(p, clip_id) ==
    /\ conn[p].pc = "idle"
    /\ conn' = [conn EXCEPT ![p] = [pc |-> "connected", clip_id |-> clip_id, pending |-> {}]]
    /\ UNCHANGED <<clips, blobs, clock, resp, dbLock, viewsBefore, wallet>>

(* cursor.execute(UPDATE): under the write lock, on the table as it is *)
ExecuteUpdate(p) ==
    /\ conn[p].pc = "connected"
    /\ write_lock_free(dbLock)
    /\ dbLock' = p
    /\ conn' = [conn EXCEPT ![p].pc = "executed",
                            ![p].pending = update_views(clips, conn[p].clip_id)]
    /\ UNCHANGED <<clips, blobs, clock, resp, viewsBefore, wallet>>

(* cursor.execute(UPDATE) gives up waiting for the lock: "database is      *)
(* locked"; get_db rolls back and the call raises                          *)
ExecuteBusy(p) ==
    /\ conn[p].pc = "connected"
    /\ ~write_lock_free(dbLock)
    /\ conn' = [conn EXCEPT ![p].pc = "failed"]
    /\ UNCHANGED <<clips, blobs, clock, resp, dbLock, viewsBefore, wallet>>

(* conn.commit() and conn.close(): the call returns *)
Commit(p) ==
    /\ conn[p].pc = "executed"
    /\ clips' = conn[p].pending
    /\ dbLock' = IF dbLock = p THEN 0 ELSE dbLock
    /\ conn' = [conn EXCEPT ![p].pc = "done", ![p].pending = {}]
    /\ UNCHANGED <<blobs, clock, resp, viewsBefore, wallet>>

(* conn.commit() raises: conn.rollback() and conn.close(), the call raises *)
Rollback(p) ==
    /\ conn[p].pc = "executed"
    /\ dbLock' = IF dbLock = p THEN 0 ELSE dbLock
    /\ conn' = [conn EXCEPT ![p].pc = "failed", ![p].pending = {}]
    /\ UNCHANGED <<clips, blobs, clock, resp, viewsBefore, wallet>>

NextConc ==
    \E p \in Procs :
        \/ \E clip_id \in ClipIds : Connect(p, clip_id)
        \/ ExecuteUpdate(p)
        \/ ExecuteBusy(p)
        \/ Commit(p)
        \/ Rollback(p)

SpecConc == InitConc /\ [][NextConc]_vars

Calls(clip_id, pcs) == { p \in Procs : conn[p].clip_id = clip_id /\ conn[p].pc \in pcs }

(* C1: when the calls of increment_views for an id have all completed, the *)
(* stored views of the clip are its views before plus the number of calls; *)
(* and at every moment they are its views before plus the number of calls  *)
(* that have returned.                                                     *)
C1_NoLostUpdate ==
    \A clip_id \in ClipIds :
        /\ RowOf(clips, clip_id).views
              = viewsBefore[clip_id] + Cardinality(Calls(clip_id, {"done"}))
        /\ Calls(clip_id, {"connected", "executed", "failed"}) = {}
              => RowOf(clips, clip_id).views
                    = viewsBefore[clip_id]
                      + Cardinality(Calls(clip_id, {"connected", "executed", "failed", "done"}))

(* every caller incremented the same clip, and all have returned *)
C1_Witness ==
    /\ \A p \in Procs : conn[p].pc = "done" /\ conn[p].clip_id = "id1"
    /\ RowOf(clips, "id1").views = viewsBefore["id1"] + MaxProcs
    /\ viewsBefore["id1"] > 0

-----------------------------------------------------------------------------
(* The settings bag through the store (SpecSettings): insert_clip is       *)
(* called with a clip whose settings is a mapping, get_clip with an id.    *)

SettingsKeys == {"a", "b", "c"}

SettingsValues ==
    { JStr("x"), JInt(1), JNull, JObj(<< <<"a", JBool(TRUE)>> >>) }

(* the dicts of at most MaxSettingsLen members *)
SettingsMaps ==
    UNION { { d \in [1..n -> SettingsKeys \X SettingsValues] :
                \A i \in 1..n, j \in 1..n : d[i][1] = d[j][1] => i = j }
            : n \in 0..MaxSettingsLen }

SettingsIds == {"id1"}

SettingsClip(clip_id, m) ==
    [id |-> clip_id, owner |-> "alice", filename |-> <<"a", ".", "m", "p", "4">>,
     storage_path |-> <<"clips", "alice", clip_id, <<".", "m", "p", "4">>>>,
     duration |-> None, file_size |-> None, resolution |-> None, fps |-> None,
     bitrate |-> None, settings |-> JObj(m)]

InsertSettings(clip_id, m) ==
    LET ins == insert_clip(clips, SettingsClip(clip_id, m), clock, TRUE)
    IN  /\ clips' = ins.table
        /\ resp' = IF ins.ok
                   THEN Response("insert_clip", 200, "", clip_id, None, None)
                   ELSE Response("insert_clip", 500, "IntegrityError", clip_id, None, None)
        /\ UNCHANGED <<blobs, clock, conn, dbLock, viewsBefore, wallet>>

GetSettings(clip_id) ==
    LET clip == get_clip(clips, clip_id)
    IN  /\ resp' = IF clip = None
                   THEN Response("get_clip", 404, "", clip_id, None, None)
                   ELSE [Response("get_clip", 200, "", clip_id, Some(clip[1].views), None)
                         EXCEPT !.settings = clip[1].settings]
        /\ UNCHANGED <<clips, blobs, clock, conn, dbLock, viewsBefore, wallet>>

NextSettings ==
    \/ \E clip_id \in SettingsIds, m \in SettingsMaps : InsertSettings(clip_id, m)
    \/ \E clip_id \in SettingsIds : GetSettings(clip_id)

SpecSettings == Init /\ [][NextSettings]_vars

(* the mapping a dict denotes: its keys and their values *)
SameMapping(d, e) ==
    /\ { d[i][1] : i \in 1..Len(d) } = { e[i][1] : i \in 1..Len(e) }
    /\ \A i \in 1..Len(d), j \in 1..Len(e) : d[i][1] = e[j][1] => d[i][2] = e[j][2]

C9_InsertStep ==
    (resp'.op = "insert_clip" /\ resp'.status = 200) =>
        \A m \in SettingsMaps :
            InsertSettings(resp'.clip_id, m) =>
                LET got == get_clip(clips', resp'.clip_id)
                IN  /\ got # None
                    /\ got[1].settings.kind = "json"
                    /\ got[1].settings.v.t = "obj"
                    /\ SameMapping(got[1].settings.v.o, m)

(* C9: after insert_clip of a record carrying the mapping m, get_clip of   *)
(* its id returns a record whose settings is a mapping with the keys and   *)
(* values of m: parsed JSON, not text and not absent.                      *)
C9_SettingsRoundTrip == [][C9_InsertStep]_vars

(* get_clip has returned the empty mapping of a record inserted with it *)
C9_Witness ==
    /\ resp.op = "get_clip" /\ resp.status = 200
    /\ resp.settings = [kind |-> "json", v |-> JObj(<< >>), text |-> << >>]

====
